---- MODULE Spec2Model ----
(***************************************************************************)
(* URL preview extension: the urlPreview.open command handler of           *)
(* src/src/extension.ts (probe, classify, frame or fetch-and-rewrite) and  *)
(* the earlier handler of src/unnamed/part_000 (fetch-and-rewrite only).   *)
(*                                                                         *)
(* A JavaScript string is a sequence of one-character strings, so that     *)
(* trimming, lower-casing, escaping and the regular expressions are        *)
(* computed character by character.  The fixed text of a template literal  *)
(* is kept as an opaque string (Japanese text is transliterated).          *)
(***************************************************************************)
EXTENDS Integers, Sequences, FiniteSets, TLC

VARIABLES handler, pc, net, userInput, targetUrl, panel, embedOk,
          fetchFn, headRes, probeRes, fetchRes, log, invocations

vars == <<handler, pc, net, userInput, targetUrl, panel, embedOk,
          fetchFn, headRes, probeRes, fetchRes, log, invocations>>

\* number of invocations of the command handler explored one after another
MaxInvocations == 2

(***************************************************************************)
(* String primitives                                                       *)
(***************************************************************************)
Min(S) == CHOOSE x \in S : \A y \in S : x <= y
Max(S) == CHOOSE x \in S : \A y \in S : x >= y

\* what JavaScript's \s and String.prototype.trim treat as white space
WS == {" ", "\t", "\n"}

UpperChars == <<"A","B","C","D","E","F","G","H","I","J","K","L","M","N","O","P","Q","R","S","T","U","V","W","X","Y","Z">>
LowerChars == <<"a","b","c","d","e","f","g","h","i","j","k","l","m","n","o","p","q","r","s","t","u","v","w","x","y","z">>
DigitChars == <<"0","1","2","3","4","5","6","7","8","9">>

LowerChar(c) ==
  IF \E i \in 1..Len(UpperChars) : UpperChars[i] = c
  THEN LowerChars[CHOOSE i \in 1..Len(UpperChars) : UpperChars[i] = c]
  ELSE c

toLowerCase(s) == [i \in 1..Len(s) |-> LowerChar(s[i])]

startsWithAt(s, i, p) ==
  /\ i >= 1
  /\ i + Len(p) - 1 <= Len(s)
  /\ SubSeq(s, i, i + Len(p) - 1) = p

includes(s, sub) == \E i \in 1..(Len(s) + 1) : startsWithAt(s, i, sub)

RECURSIVE trimStart(_)
trimStart(s) == IF s # <<>> /\ Head(s) \in WS THEN trimStart(Tail(s)) ELSE s

RECURSIVE trimEnd(_)
trimEnd(s) ==
  IF s # <<>> /\ s[Len(s)] \in WS THEN trimEnd(SubSeq(s, 1, Len(s) - 1)) ELSE s

trim(s) == trimEnd(trimStart(s))

RECURSIVE replaceFrom(_, _, _, _)
\* s from index i on, with every c replaced by r
replaceFrom(s, c, r, i) ==
  IF i > Len(s) THEN <<>>
  ELSE (IF s[i] = c THEN r ELSE <<s[i]>>) \o replaceFrom(s, c, r, i + 1)

\* s.replace(/c/g, r); the receiver is evaluated once, as a method call does
replaceAll(s, c, r) == CHOOSE out \in { replaceFrom(v, c, r, 1) : v \in {s} } : TRUE

RECURSIVE NumToChars(_)
NumToChars(n) ==
  IF n < Len(DigitChars) THEN <<DigitChars[n + 1]>>
  ELSE NumToChars(n \div Len(DigitChars)) \o <<DigitChars[(n % Len(DigitChars)) + 1]>>

\* s.replace(/&/g,'&amp;').replace(/</g,'&lt;').replace(/>/g,'&gt;').replace(/"/g,'&quot;')
\* with the ampersand replaced last instead of first
escapeHtml_ampLast(s) ==
  replaceAll(replaceAll(replaceAll(replaceAll(s, "<", <<"&","l","t",";">>), ">", <<"&","g","t",";">>),
                        "\"", <<"&","q","u","o","t",";">>), "&", <<"&","a","m","p",";">>)

escapeHtml(s) ==
  replaceAll(replaceAll(replaceAll(replaceAll(s, "&", <<"&","a","m","p",";">>), "<", <<"&","l","t",";">>),
                        ">", <<"&","g","t",";">>), "\"", <<"&","q","u","o","t",";">>)

(***************************************************************************)
(* What an HTML parser makes of an escaped string: the four entities are   *)
(* decoded, everything else is kept.                                       *)
(***************************************************************************)
Entities == { <<<<"&","a","m","p",";">>, "&">>, <<<<"&","l","t",";">>, "<">>, <<<<"&","g","t",";">>, ">">>, <<<<"&","q","u","o","t",";">>, "\"">> }

RECURSIVE DecodeEntities(_)
DecodeEntities(s) ==
  IF s = <<>> THEN <<>>
  ELSE IF \E e \in Entities : startsWithAt(s, 1, e[1])
       THEN LET e == CHOOSE e \in Entities : startsWithAt(s, 1, e[1])
            IN  <<e[2]>> \o DecodeEntities(SubSeq(s, Len(e[1]) + 1, Len(s)))
       ELSE <<Head(s)>> \o DecodeEntities(Tail(s))

\* no raw < > " and every & opens one of the four entities
WellEscaped(s) ==
  \A i \in 1..Len(s) :
    /\ s[i] \notin {"<", ">", "\""}
    /\ s[i] = "&" => \E e \in Entities : startsWithAt(s, i, e[1])

(***************************************************************************)
(* isEmbeddable: the probe's response and its classification               *)
(***************************************************************************)
\* how an awaited fetch() settles: "response", "null" (a falsy response),
\* "throw" (rejected: network error, abort), or "none" (not settled yet)
NoRes == [kind |-> "none", status |-> 0, statusText |-> <<>>, headers |-> <<>>,
          body |-> <<>>, message |-> <<>>]
Thrown(m) == [NoRes EXCEPT !.kind = "throw", !.message = m]
NullRes == [NoRes EXCEPT !.kind = "null"]
Response(st, txt, hs) ==
  [NoRes EXCEPT !.kind = "response", !.status = st, !.statusText = txt, !.headers = hs]

\* res.headers.forEach((v, k) => (headers[k.toLowerCase()] = v)); headers[name]
\* (an absent header and an empty one are both falsy: the empty string stands for both)
headerValue(hs, name) ==
  LET idx == {i \in 1..Len(hs) : toLowerCase(hs[i].k) = name}
  IN  IF idx = {} THEN <<>> ELSE hs[Max(idx)].v

XFrameOptions == <<"x","-","f","r","a","m","e","-","o","p","t","i","o","n","s">>
ContentSecurityPolicy == <<"c","o","n","t","e","n","t","-","s","e","c","u","r","i","t","y","-","p","o","l","i","c","y">>
FrameAncestors == <<"f","r","a","m","e","-","a","n","c","e","s","t","o","r","s">>
QuotedNone == <<"'","n","o","n","e","'">>
QuotedSelf == <<"'","s","e","l","f","'">>

\* if (headers['x-frame-options']) { val = ...toLowerCase(); deny / sameorigin / same-site }
xfoBlocks(hs) ==
  LET raw == headerValue(hs, XFrameOptions)
      val == toLowerCase(raw)
  IN  /\ raw # <<>>
      /\ \/ includes(val, <<"d","e","n","y">>)
         \/ includes(val, <<"s","a","m","e","o","r","i","g","i","n">>)
         \/ includes(val, <<"s","a","m","e","-","s","i","t","e">>)

RECURSIVE wsRun(_, _)
\* length of the run of white space that starts at index j
wsRun(s, j) == IF j <= Len(s) /\ s[j] \in WS THEN 1 + wsRun(s, j + 1) ELSE 0

RECURSIVE untilSemi(_, _)
\* index of the last character of the run of non-semicolons that starts at index j
untilSemi(s, j) == IF j <= Len(s) /\ s[j] # ";" THEN untilSemi(s, j + 1) ELSE j - 1

NoMatch == [found |-> FALSE, group |-> <<>>]

\* /frame-ancestors\s+([^;]+)/ anchored at index i: \s+ is greedy and gives one
\* character back when nothing but the end or a semicolon follows it
faMatchAt(s, i) ==
  LET j == i + Len(FrameAncestors)
      k == wsRun(s, j)
  IN  IF ~startsWithAt(s, i, FrameAncestors) \/ k = 0 THEN NoMatch
      ELSE IF untilSemi(s, j + k) >= j + k
           THEN [found |-> TRUE, group |-> SubSeq(s, j + k, untilSemi(s, j + k))]
      ELSE IF k >= 2
           THEN [found |-> TRUE, group |-> SubSeq(s, j + k - 1, untilSemi(s, j + k - 1))]
      ELSE NoMatch

\* csp.match(/frame-ancestors\s+([^;]+)/): the leftmost match
faMatch(s) ==
  LET at == {i \in 1..Len(s) : faMatchAt(s, i).found}
  IN  IF at = {} THEN NoMatch ELSE faMatchAt(s, Min(at))

\* /^\s*'self'\s*$/.test(ancestors)
onlySelf(a) ==
  LET lead == wsRun(a, 1)
      rest == lead + Len(QuotedSelf) + 1
  IN  /\ startsWithAt(a, lead + 1, QuotedSelf)
      /\ \A i \in rest..Len(a) : a[i] \in WS

\* the ancestors test with 'self' blocked wherever it occurs in the list
ancestorsBlock_anySelf(a) == includes(a, QuotedNone) \/ includes(a, QuotedSelf)

\* if (ancestors.includes("'none'")) return false; if (/^\s*'self'\s*$/.test(ancestors)) return false
ancestorsBlock(a) == includes(a, QuotedNone) \/ onlySelf(a)

\* if (headers['content-security-policy']) { csp = ...toLowerCase(); match ... }
cspBlocks(hs) ==
  LET raw == headerValue(hs, ContentSecurityPolicy)
      m == faMatch(toLowerCase(raw))
  IN  raw # <<>> /\ m.found /\ ancestorsBlock(m.group)

\* the classification of a response's headers
headersEmbeddable(hs) == ~xfoBlocks(hs) /\ ~cspBlocks(hs)

\* if (!res || res.status === 405 || res.status === 501) -> GET for every HEAD response
needsGet_always(res) == TRUE

\* if (!res || res.status === 405 || res.status === 501)
needsGet(res) == res.kind = "null" \/ (res.kind = "response" /\ res.status \in {405, 501})

\* isEmbeddable with the catch block answering true
isEmbeddable_failOpen(res) ==
  IF res.kind = "throw" THEN TRUE
  ELSE IF res.kind = "null" THEN FALSE
  ELSE headersEmbeddable(res.headers)

\* the value isEmbeddable resolves to, given how its last request settled
isEmbeddable(res) ==
  IF res.kind = "throw" THEN FALSE
  ELSE IF res.kind = "null" THEN FALSE
  ELSE headersEmbeddable(res.headers)

(***************************************************************************)
(* fetchHtmlAndInjectBase / getEmbeddedHtml: the rewriter                  *)
(***************************************************************************)
baseTag(url) == <<"<","b","a","s","e"," ","h","r","e","f","=","\"">> \o escapeHtml(url) \o <<"\"",">">>

NoHead == [found |-> FALSE, first |-> 0, last |-> 0]

\* /<head[^>]*>/i : the leftmost "<head" that some ">" follows, up to the first such ">"
headMatch(raw) ==
  LET low == toLowerCase(raw)
      open == <<"<","h","e","a","d">>
      closes(i) == {e \in (i + Len(open))..Len(raw) : raw[e] = ">"}
      at == {i \in 1..Len(raw) : startsWithAt(low, i, open) /\ closes(i) # {}}
  IN  IF at = {} THEN NoHead
      ELSE [found |-> TRUE, first |-> Min(at), last |-> Min(closes(Min(at)))]

\* if (headTag.test(raw)) raw = raw.replace(headTag, m => m + baseTag) else raw = baseTag + raw
injectBase(raw, url) ==
  LET m == headMatch(raw)
  IN  IF m.found
      THEN SubSeq(raw, 1, m.last) \o baseTag(url) \o SubSeq(raw, m.last + 1, Len(raw))
      ELSE baseTag(url) \o raw

\* `HTTP ${res.status} ${res.statusText}` without the reason phrase
httpError_noReason(res) == <<"H","T","T","P"," ">> \o NumToChars(res.status)

\* new Error(`HTTP ${res.status} ${res.statusText}`).message
httpError(res) == <<"H","T","T","P"," ">> \o NumToChars(res.status) \o <<" ">> \o res.statusText

\* res.ok
ok(res) == res.status >= 200 /\ res.status <= 299

\* String(err && err.message ? err.message : err) for an Error object
errorText(message) == IF message # <<>> THEN message ELSE <<"E","r","r","o","r">>

(***************************************************************************)
(* The documents written to panel.webview.html: the pieces of the template *)
(* literal in order; "lit" pieces are fixed text, the others are the       *)
(* strings interpolated into it, under the name of the place they fill.    *)
(***************************************************************************)
Lit(t) == [role |-> "lit", lit |-> t, chars |-> <<>>]
Ins(role, s) == [role |-> role, lit |-> "", chars |-> s]

Blank == <<>>

\* extension.ts: the "checking..." message
placeholderHtml(url) ==
  << Lit("<html><body style=\"font-family: sans-serif; padding: 16px;\">kensa-chu: "),
     Ins("placeholder", escapeHtml(url)),
     Lit("<br/>umekomi kanou ka kakunin shiteimasu...</body></html>") >>

\* extension.ts: the iframe document
iframeHtml(url) ==
  << Lit("<!doctype html><html><head><meta charset=\"utf-8\" /><meta http-equiv=\"Content-Security-Policy\" content=\"default-src 'none'; frame-src "),
     Ins("csp-frame-src", url),
     Lit(" http: https: data:; style-src 'unsafe-inline' http: https:; script-src 'unsafe-inline' http: https:;\"><style>html,body,iframe{height:100%;margin:0;padding:0;border:0} iframe{width:100%;}</style></head><body><iframe src=\""),
     Ins("iframe-src", escapeHtml(url)),
     Lit("\" frameborder=\"0\"></iframe></body></html>") >>

\* extension.ts: the wrapper around the rewritten markup
wrapperHtml(raw) ==
  << Lit("<!doctype html><html><head><meta charset=\"utf-8\" /><meta http-equiv=\"Content-Security-Policy\" content=\"default-src 'none'; img-src https: data: blob:; font-src https: data:; style-src 'unsafe-inline' https:; script-src 'unsafe-inline' 'unsafe-eval' https:;\"></head><body>"),
     Ins("body", raw),
     Lit("</body></html>") >>

\* extension.ts: the error document
errorHtml(message) ==
  << Lit("<html><body style=\"font-family:sans-serif;padding:16px;\"><h3>shutoku ni shippai shimashita</h3><pre>"),
     Ins("error-pre", escapeHtml(errorText(message))),
     Lit("</pre></body></html>") >>

\* part_000: getEmbeddedHtml's wrapper
getEmbeddedHtml(rawHtml, baseUrl) ==
  << Lit("<!doctype html><html><head><meta charset=\"utf-8\" /><meta http-equiv=\"Content-Security-Policy\" content=\"default-src 'none' data: blob:; img-src data: blob: https:; font-src https: data:; style-src 'unsafe-inline' https:; script-src 'unsafe-inline' 'unsafe-eval' https:;\"></head><body>"),
     Ins("body", injectBase(rawHtml, baseUrl)),
     Lit("</body></html>") >>

\* part_000: the error document, err.message interpolated as it is
errorHtml000(message) ==
  << Lit("<html><body><h3>shutoku ni shippai shimashita:</h3><pre>"),
     Ins("error-pre", message),
     Lit("</pre></body></html>") >>

hasRole(doc, r) == \E i \in 1..Len(doc) : doc[i].role = r
part(doc, r) == doc[CHOOSE i \in 1..Len(doc) : doc[i].role = r].chars

(***************************************************************************)
(* The inputs explored                                                     *)
(***************************************************************************)
\* what showInputBox resolves to: undefined when dismissed, else the text typed
Dismissed == [defined |-> FALSE, text |-> <<>>]
Typed(t) == [defined |-> TRUE, text |-> t]

UrlQuery == <<"a",".","i","o","/","?","q","=","1","&","r","=","2">>
UrlMarkup == <<"a",".","i","o","/","\"",">","<","i",">">>
UrlPlainHttp == <<"h","t","t","p",":","/","/","a",".","i","o">>

Inputs ==
  { Dismissed, Typed(<<>>), Typed(<<" "," ">>), Typed(<<"a",".","i","o">>), Typed(<<" ","a",".","i","o","\t">>),
    Typed(UrlPlainHttp), Typed(<<"H","T","T","P","S",":","/","/","A",".","i","o","/","p">>), Typed(UrlQuery), Typed(UrlMarkup) }

\* whether globalThis.fetch exists and whether require('node-fetch') succeeds
Environments == [globalFetch : BOOLEAN, nodeFetch : BOOLEAN]

H(k, v) == [k |-> k, v |-> v]
SelfPlusHost == <<"f","r","a","m","e","-","a","n","c","e","s","t","o","r","s"," ","'","s","e","l","f","'"," ","h","t","t","p","s",":","/","/","a",".","e","x","a","m","p","l","e">>

XfoValues ==
  { <<"D","E","N","Y">>, <<"d","e","n","y">>, <<"S","A","M","E","O","R","I","G","I","N">>, <<"S","a","m","e","O","r","i","g","i","n">>, <<"s","a","m","e","-","s","i","t","e">>,
    <<"A","L","L","O","W","-","F","R","O","M"," ","h","t","t","p","s",":","/","/","a",".","i","o">>, <<"A","L","L","O","W","A","L","L">>, <<"A","L","L","O","W","-","F","R","O","M"," ","h","t","t","p","s",":","/","/","d","e","n","y",".","i","o">> }

CspValues ==
  { <<"f","r","a","m","e","-","a","n","c","e","s","t","o","r","s"," ","'","s","e","l","f","'">>, <<"f","r","a","m","e","-","a","n","c","e","s","t","o","r","s"," ","'","n","o","n","e","'">>, SelfPlusHost,
    <<"d","e","f","a","u","l","t","-","s","r","c"," ","'","s","e","l","f","'">>, <<"d","e","f","a","u","l","t","-","s","r","c"," ","'","s","e","l","f","'",";"," ","f","r","a","m","e","-","a","n","c","e","s","t","o","r","s"," "," ","'","s","e","l","f","'"," ",";"," ","i","m","g","-","s","r","c"," ","*">>,
    <<"F","R","A","M","E","-","A","N","C","E","S","T","O","R","S"," ","'","N","O","N","E","'">>, <<"f","r","a","m","e","-","a","n","c","e","s","t","o","r","s"," ","h","t","t","p","s",":","/","/","a",".","i","o"," ","'","n","o","n","e","'">>,
    <<"f","r","a","m","e","-","a","n","c","e","s","t","o","r","s"," ","*">>, <<"f","r","a","m","e","-","a","n","c","e","s","t","o","r","s">>, <<"f","r","a","m","e","-","a","n","c","e","s","t","o","r","s"," ",";","i","m","g","-","s","r","c"," ","*">>,
    <<"f","r","a","m","e","-","a","n","c","e","s","t","o","r","s"," "," ">>, <<"s","c","r","i","p","t","-","s","r","c"," ","'","n","o","n","e","'",";"," ","f","r","a","m","e","-","a","n","c","e","s","t","o","r","s"," ","'","s","e","l","f","'"," ","a",".","i","o">>,
    <<"f","r","a","m","e","-","a","n","c","e","s","t","o","r","s",";"," ","f","r","a","m","e","-","a","n","c","e","s","t","o","r","s"," ","'","s","e","l","f","'">>, <<"r","e","p","o","r","t","-","u","r","i"," ","/","f","r","a","m","e","-","a","n","c","e","s","t","o","r","s"," ","'","n","o","n","e","'">> }

NoHeaders == << H(<<"c","o","n","t","e","n","t","-","t","y","p","e">>, <<"t","e","x","t","/","h","t","m","l">>) >>

HeaderSets ==
  { <<>>, NoHeaders }
  \cup { << H(XFrameOptions, v) >> : v \in XfoValues }
  \cup { << H(<<"X","-","F","r","a","m","e","-","O","p","t","i","o","n","s">>, <<"D","e","n","y">>), H(<<"s","e","r","v","e","r">>, <<"x">>) >> }
  \cup { << H(ContentSecurityPolicy, v) >> : v \in CspValues }
  \cup { << H(<<"C","o","n","t","e","n","t","-","S","e","c","u","r","i","t","y","-","P","o","l","i","c","y">>, <<"F","r","a","m","e","-","A","n","c","e","s","t","o","r","s"," ","'","S","e","l","f","'">>) >>,
         << H(XFrameOptions, <<"A","L","L","O","W","A","L","L">>), H(ContentSecurityPolicy, <<"f","r","a","m","e","-","a","n","c","e","s","t","o","r","s"," ","'","n","o","n","e","'">>) >>,
         << H(ContentSecurityPolicy, SelfPlusHost), H(XFrameOptions, <<"S","A","M","E","O","R","I","G","I","N">>) >> }

ErrorMessages == { <<"c","o","n","n","e","c","t"," ","E","C","O","N","N","R","E","F","U","S","E","D">>, <<"b","a","d"," ","<","h","o","s","t",">"," ","&"," ","\"","p","o","r","t","\"">> }
ModuleNotFound == <<"C","a","n","n","o","t"," ","f","i","n","d"," ","m","o","d","u","l","e"," ","'","n","o","d","e","-","f","e","t","c","h","'">>

ProbeOutcomes ==
  { Thrown(m) : m \in ErrorMessages } \cup { NullRes }
  \cup { Response(st, <<>>, hs) : st \in {200, 404, 405, 501}, hs \in HeaderSets }

StatusLines ==
  { <<200, <<"O","K">>>>, <<299, <<>>>>, <<300, <<>>>>, <<404, <<"N","o","t"," ","F","o","u","n","d">>>>,
    <<503, <<"B","u","s","y"," ","&"," ","<","d","o","w","n",">">>>> }

FetchOutcomes ==
  { Thrown(m) : m \in ErrorMessages }
  \cup { Response(l[1], l[2], <<>>) : l \in StatusLines }

HeaderMarkup == <<"<","h","e","a","d","e","r",">","h","<","/","h","e","a","d","e","r",">","<","p",">","x","<","/","p",">">>
HeadMarkup == <<"<","h","t","m","l",">","<","h","e","a","d",">","<","/","h","e","a","d",">","<","b","o","d","y",">","x","<","/","b","o","d","y",">","<","/","h","t","m","l",">">>
PlainMarkup == <<"<","p",">","x","<","/","p",">">>

Bodies ==
  { HeadMarkup, <<"<","H","T","M","L",">","<","H","E","A","D"," ","l","a","n","g","=","\"","e","n","\"",">","<","t","i","t","l","e",">","t","<","/","t","i","t","l","e",">","<","/","H","E","A","D",">","x">>, PlainMarkup, <<>>,
    HeaderMarkup, <<"<","h","e","a","d">>, <<"<","p",">","<","h","e","a","d"," ",">","y">> }

(***************************************************************************)
(* getFetch and the command handlers                                       *)
(***************************************************************************)
\* globalThis.fetch if there is one, else require('node-fetch'), which may throw
getFetch(env) ==
  IF env.globalFetch THEN "global" ELSE IF env.nodeFetch THEN "node-fetch" ELSE "throw"

\* if (!input) return
falsy(input) == ~input.defined \/ input.text = <<>>

\* /^https?:\/\//i.test(targetUrl)
hasScheme(s) ==
  \/ startsWithAt(toLowerCase(s), 1, <<"h","t","t","p",":","/","/">>)
  \/ startsWithAt(toLowerCase(s), 1, <<"h","t","t","p","s",":","/","/">>)

\* targetUrl = input.trim(); if (!/^https?:\/\//i.test(targetUrl)) targetUrl = 'https://' + targetUrl
normalize(text) ==
  LET t == trim(text) IN IF hasScheme(t) THEN t ELSE <<"h","t","t","p","s",":","/","/">> \o t

Init ==
  /\ handler = "none"
  /\ pc = "Idle"
  /\ net = "idle"
  /\ userInput = Dismissed
  /\ targetUrl = <<>>
  /\ panel = [open |-> FALSE, html |-> Blank]
  /\ embedOk = "unset"
  /\ fetchFn = "unset"
  /\ headRes = NoRes
  /\ probeRes = NoRes
  /\ fetchRes = NoRes
  /\ log = <<>>
  /\ invocations = 1

\* extension.ts: from the command to the first network wait
OpenExtension(input, env) ==
  /\ pc = "Idle"
  /\ handler' = "extension"
  /\ userInput' = input
  /\ UNCHANGED <<headRes, probeRes, fetchRes, invocations>>
  /\ IF falsy(input)
     THEN /\ pc' = "Rejected"
          /\ UNCHANGED <<net, targetUrl, panel, embedOk, fetchFn, log>>
     ELSE /\ targetUrl' = normalize(input.text)
          /\ fetchFn' = getFetch(env)
          /\ IF getFetch(env) # "throw"
             THEN /\ panel' = [open |-> TRUE, html |-> placeholderHtml(targetUrl')]
                  /\ pc' = "ProbeHead"
                  /\ net' = "inflight"
                  /\ embedOk' = "unset"
                  /\ log' = <<"panel", "write-placeholder", "HEAD">>
             ELSE \* isEmbeddable catches and answers false; fetchHtmlAndInjectBase throws
                  /\ panel' = [open |-> TRUE, html |-> errorHtml(ModuleNotFound)]
                  /\ pc' = "Displayed"
                  /\ net' = "idle"
                  /\ embedOk' = "false"
                  /\ log' = <<"panel", "write-placeholder", "write-error">>

\* extension.ts: const embedOk = await isEmbeddable(targetUrl); if (embedOk) ... else ...
afterProbe(res) ==
  /\ probeRes' = res
  /\ IF isEmbeddable(res)
     THEN /\ embedOk' = "true"
          /\ panel' = [panel EXCEPT !.html = iframeHtml(targetUrl)]
          /\ pc' = "Displayed"
          /\ net' = "idle"
          /\ log' = Append(log, "write-frame")
     ELSE /\ embedOk' = "false"
          /\ panel' = panel
          /\ pc' = "Fetching"
          /\ net' = "inflight"
          /\ log' = Append(log, "GET-content")

\* isEmbeddable: the HEAD request settles
HeadSettles(res) ==
  /\ pc = "ProbeHead" /\ net = "inflight"
  /\ headRes' = [res EXCEPT !.headers = <<>>]
  /\ UNCHANGED <<handler, userInput, targetUrl, fetchFn, fetchRes, invocations>>
  /\ IF needsGet(res)
     THEN /\ pc' = "ProbeGet"
          /\ log' = Append(log, "GET-probe")
          /\ UNCHANGED <<net, panel, embedOk, probeRes>>
     ELSE afterProbe(res)

\* isEmbeddable: the fallback GET request settles
ProbeGetSettles(res) ==
  /\ pc = "ProbeGet" /\ net = "inflight"
  /\ UNCHANGED <<handler, userInput, targetUrl, fetchFn, headRes, fetchRes, invocations>>
  /\ afterProbe(res)

\* part_000: from the command to the network wait of fetchHtml
OpenPart000(input) ==
  /\ pc = "Idle"
  /\ handler' = "part_000"
  /\ userInput' = input
  /\ UNCHANGED <<embedOk, headRes, probeRes, fetchRes, invocations>>
  /\ IF falsy(input)
     THEN /\ pc' = "Rejected"
          /\ UNCHANGED <<net, targetUrl, panel, fetchFn, log>>
     ELSE /\ targetUrl' = input.text
          /\ fetchFn' = "node-fetch"
          /\ panel' = [open |-> TRUE, html |-> Blank]
          /\ pc' = "Fetching"
          /\ net' = "inflight"
          /\ log' = <<"panel", "GET-content">>

\* the error document of the handler that is running
errorDocument(message) ==
  IF handler = "extension" THEN errorHtml(message) ELSE errorHtml000(message)

\* the rewritten document of the handler that is running
embeddedDocument(raw) ==
  IF handler = "extension" THEN wrapperHtml(injectBase(raw, targetUrl))
  ELSE getEmbeddedHtml(raw, targetUrl)

showError(message) ==
  /\ panel' = [panel EXCEPT !.html = errorDocument(message)]
  /\ pc' = "Displayed"
  /\ net' = "idle"
  /\ log' = Append(log, "write-error")

\* fetchHtmlAndInjectBase / fetchHtml: the GET request settles
FetchSettles(res) ==
  /\ pc = "Fetching" /\ net = "inflight"
  /\ fetchRes' = res
  /\ UNCHANGED <<handler, userInput, targetUrl, embedOk, fetchFn, headRes, probeRes, invocations>>
  /\ IF res.kind = "throw" THEN showError(res.message)
     ELSE IF ~ok(res) THEN showError(httpError(res))
     ELSE /\ pc' = "ReadingBody"
          /\ UNCHANGED <<net, panel, log>>

\* await res.text() resolves
BodyRead(raw) ==
  /\ pc = "ReadingBody" /\ net = "inflight"
  /\ fetchRes' = [fetchRes EXCEPT !.body = raw]
  /\ panel' = [panel EXCEPT !.html = embeddedDocument(raw)]
  /\ pc' = "Displayed"
  /\ net' = "idle"
  /\ log' = Append(log, "write-embedded")
  /\ UNCHANGED <<handler, userInput, targetUrl, embedOk, fetchFn, headRes, probeRes, invocations>>

\* await res.text() rejects
BodyFails(message) ==
  /\ pc = "ReadingBody" /\ net = "inflight"
  /\ fetchRes' = [fetchRes EXCEPT !.kind = "throw", !.message = message]
  /\ showError(message)
  /\ UNCHANGED <<handler, userInput, targetUrl, embedOk, fetchFn, headRes, probeRes, invocations>>

\* the origin accepts the request and never answers: no request carries a timeout
\* or an abort signal, so the pending promise never settles
OriginHangs ==
  /\ net = "inflight"
  /\ net' = "hung"
  /\ UNCHANGED <<handler, pc, userInput, targetUrl, panel, embedOk, fetchFn, headRes,
                 probeRes, fetchRes, log, invocations>>

\* the command is run again: a fresh instance of the handler
NextInvocation ==
  /\ pc \in {"Displayed", "Rejected"}
  /\ invocations < MaxInvocations
  /\ invocations' = invocations + 1
  /\ handler' = "none"
  /\ pc' = "Idle"
  /\ net' = "idle"
  /\ userInput' = Dismissed
  /\ targetUrl' = <<>>
  /\ panel' = [open |-> FALSE, html |-> Blank]
  /\ embedOk' = "unset"
  /\ fetchFn' = "unset"
  /\ headRes' = NoRes
  /\ probeRes' = NoRes
  /\ fetchRes' = NoRes
  /\ log' = <<>>

Next ==
  \/ \E input \in Inputs, env \in Environments : OpenExtension(input, env)
  \/ \E input \in Inputs : OpenPart000(input)
  \/ \E res \in ProbeOutcomes : HeadSettles(res)
  \/ \E res \in ProbeOutcomes : ProbeGetSettles(res)
  \/ \E res \in FetchOutcomes : FetchSettles(res)
  \/ \E raw \in Bodies : BodyRead(raw)
  \/ \E m \in ErrorMessages : BodyFails(m)
  \/ OriginHangs
  \/ NextInvocation

Spec == Init /\ [][Next]_vars

\* every step of the handler and of the network that can be taken is taken
FairSpec == Spec /\ WF_vars(Next)

(***************************************************************************)
(* Properties                                                              *)
(***************************************************************************)
Count(e) == Cardinality({i \in 1..Len(log) : log[i] = e})
IsPrefix(a, b) == Len(a) <= Len(b) /\ SubSeq(b, 1, Len(a)) = a
Accepted == pc \notin {"Idle", "Rejected"}
Waiting == pc \in {"ProbeHead", "ProbeGet", "Fetching", "ReadingBody"}

\* the probe ended without a usable response: a request threw (network error, abort)
\* or resolved to nothing, or no fetch function could be obtained
ProbeFailed ==
  \/ probeRes.kind \in {"throw", "null"}
  \/ (handler = "extension" /\ fetchFn = "throw")

\* C1: after a failed probe the decision is "not embeddable" and the panel never
\* holds a frame document.
C1_FailClosed ==
  ProbeFailed => embedOk = "false" /\ ~hasRole(panel.html, "iframe-src")

C1_Witness ==
  /\ probeRes.kind = "throw"
  /\ headRes.kind = "response" /\ headRes.status = 405
  /\ pc = "Displayed"

\* The rule list of the classifier, read off the header list directive by directive.
\* A directive names frame-ancestors when that text occurs in it followed by white
\* space and a value; the classifier is a heuristic, not a parser of the policy grammar.
RECURSIVE Directives(_)
Directives(s) ==
  IF ~includes(s, <<";">>) THEN <<s>>
  ELSE LET cut == Min({i \in 1..Len(s) : s[i] = ";"})
       IN  <<SubSeq(s, 1, cut - 1)>> \o Directives(SubSeq(s, cut + 1, Len(s)))

HeaderNamed(hs, name) == {i \in 1..Len(hs) : toLowerCase(hs[i].k) = name}

\* the text after the directive name, when the directive names frame-ancestors and
\* white space and at least one more character follow the name
AncestorLists(d) ==
  { SubSeq(d, p + Len(FrameAncestors), Len(d)) :
      p \in { q \in 1..Len(d) : /\ startsWithAt(d, q, FrameAncestors)
                                 /\ Len(d) >= q + Len(FrameAncestors) + 1
                                 /\ d[q + Len(FrameAncestors)] \in WS } }

RuleXfo(hs) ==
  \E i \in HeaderNamed(hs, XFrameOptions) :
    \E w \in { <<"d","e","n","y">>, <<"s","a","m","e","o","r","i","g","i","n">>, <<"s","a","m","e","-","s","i","t","e">> } : includes(toLowerCase(hs[i].v), w)

RuleCsp(hs) ==
  \E i \in HeaderNamed(hs, ContentSecurityPolicy) :
    LET ds == Directives(toLowerCase(hs[i].v))
        with == {n \in 1..Len(ds) : AncestorLists(ds[n]) # {}}
    IN  /\ with # {}
        /\ LET d == ds[Min(with)]
               list == CHOOSE l \in AncestorLists(d) :
                         \A m \in AncestorLists(d) : Len(m) <= Len(l)
           IN  includes(list, QuotedNone) \/ trim(list) = QuotedSelf

FrameTo(doc, url) ==
  hasRole(doc, "iframe-src") /\ DecodeEntities(part(doc, "iframe-src")) = url

\* C3: the final document is a frame whose src is the normalized target exactly
\* when the target was classified embeddable; a target classified not embeddable
\* ends in the rewritten copy or the error document, never in a frame.
C3_FrameIffEmbeddable ==
  /\ hasRole(panel.html, "iframe-src") => embedOk = "true"
  /\ pc = "Displayed" =>
       /\ FrameTo(panel.html, targetUrl) <=> embedOk = "true"
       /\ embedOk = "false" =>
            /\ hasRole(panel.html, "body") \/ hasRole(panel.html, "error-pre")
            /\ ~hasRole(panel.html, "iframe-src")

C3_Witness ==
  /\ pc = "Displayed"
  /\ embedOk = "true"
  /\ userInput = Typed(UrlMarkup)
  /\ FrameTo(panel.html, targetUrl)

\* the content fetch threw, or answered with a status outside 200..299
FetchFailed ==
  \/ fetchRes.kind = "throw"
  \/ fetchRes.kind = "response" /\ (fetchRes.status < 200 \/ fetchRes.status > 299)

\* C4: in extension.ts a failed content fetch ends the invocation in Displayed with
\* the error document, which shows the status and the reason phrase (or the
\* error's message) escaped; the error write is the last event and the content
\* GET was issued once.
C4_FetchFailureShown ==
  (handler = "extension" /\ FetchFailed) =>
    /\ pc = "Displayed" /\ net = "idle"
    /\ hasRole(panel.html, "error-pre")
    /\ ~hasRole(panel.html, "placeholder")
    /\ WellEscaped(part(panel.html, "error-pre"))
    /\ LET shown == DecodeEntities(part(panel.html, "error-pre"))
       IN  IF fetchRes.kind = "throw" THEN shown = fetchRes.message
           ELSE /\ includes(shown, NumToChars(fetchRes.status))
                /\ includes(shown, fetchRes.statusText)
    /\ log[Len(log)] = "write-error"
    /\ Count("GET-content") = 1
    /\ Count("write-error") = 1

C4_Witness ==
  /\ handler = "extension"
  /\ fetchRes.kind = "response" /\ fetchRes.status = 503
  /\ pc = "Displayed"

\* C5: every accepted invocation of extension.ts eventually reaches Displayed.
C5_EventuallyDisplayed ==
  (handler = "extension" /\ Accepted) ~> (pc = "Displayed")

\* C6: while the handler waits for the network the open panel shows the
\* placeholder, and an open panel is never blank.
C6_NeverBlank ==
  panel.open =>
    /\ panel.html # Blank
    /\ Waiting => hasRole(panel.html, "placeholder")

\* C7: the input is rejected (no panel, no request) exactly when it is empty after
\* trimming; an accepted input becomes a non-empty http(s) URL, https:// being
\* prefixed exactly when the trimmed input has no http/https scheme.
C7_RejectIffEmpty ==
  pc # "Idle" =>
    LET t == IF userInput.defined THEN trim(userInput.text) ELSE <<>>
    IN  /\ pc = "Rejected" <=> t = <<>>
        /\ pc = "Rejected" => ~panel.open /\ log = <<>>
        /\ pc # "Rejected" =>
             /\ targetUrl # <<>>
             /\ hasScheme(targetUrl)
             /\ targetUrl = (IF hasScheme(t) THEN t ELSE <<"h","t","t","p","s",":","/","/">> \o t)

RECURSIVE upToQuote(_, _)
\* the characters from index i up to the next double quote
upToQuote(s, i) ==
  IF i > Len(s) \/ s[i] = "\"" THEN <<>> ELSE <<s[i]>> \o upToQuote(s, i + 1)

\* C8: every URL or error message put into an emitted document is put there
\* escaped: the placeholder text, the frame-src of the policy, the iframe src,
\* the error block, and the href of the inserted base element.
C8_InsertionsEscaped ==
  /\ \A i \in 1..Len(panel.html) :
       panel.html[i].role \in {"placeholder", "csp-frame-src", "iframe-src", "error-pre"}
         => WellEscaped(panel.html[i].chars)
  /\ hasRole(panel.html, "body") =>
       \E p \in 1..Len(part(panel.html, "body")) :
         LET b == part(panel.html, "body")
             open == <<"<","b","a","s","e"," ","h","r","e","f","=","\"">>
             href == upToQuote(b, p + Len(open))
         IN  /\ startsWithAt(b, p, open)
             /\ WellEscaped(href)
             /\ DecodeEntities(href) = targetUrl

\* the first opening tag whose name is head, in any casing
HeadElementTag(raw) ==
  LET low == toLowerCase(raw)
      open == <<"<","h","e","a","d">>
      closes(i) == {e \in (i + Len(open))..Len(raw) : raw[e] = ">"}
      at == {i \in 1..Len(raw) : /\ startsWithAt(low, i, open)
                                  /\ closes(i) # {}
                                  /\ raw[i + Len(open)] \in WS \cup {">", "/"}}
  IN  IF at = {} THEN 0 ELSE Min(closes(Min(at)))

\* C9: the rewritten markup is the fetched markup with one base element, href the
\* escaped source URL, right after the first opening head tag, or in front of
\* the markup when it has no head element.
C9_BaseAfterHead ==
  hasRole(panel.html, "body") =>
    LET raw == fetchRes.body
        cut == HeadElementTag(raw)
        base == <<"<","b","a","s","e"," ","h","r","e","f","=","\"">> \o escapeHtml(targetUrl) \o <<"\"",">">>
    IN  part(panel.html, "body") =
          SubSeq(raw, 1, cut) \o base \o SubSeq(raw, cut + 1, Len(raw))

\* the event sequences of one complete invocation of extension.ts
Started == <<"panel", "write-placeholder", "HEAD">>
Endings == { <<"write-frame">>, <<"GET-content", "write-embedded">>,
             <<"GET-content", "write-error">> }
Shapes == { Started \o e : e \in Endings } \cup { Started \o <<"GET-probe">> \o e : e \in Endings }
NoFetchShape == <<"panel", "write-placeholder", "write-error">>

ContentFetchOrder ==
  /\ Count("GET-content") >= 1 => embedOk = "false" /\ probeRes.kind # "none"
  /\ Count("write-frame") >= 1 => Count("GET-content") = 0

\* C10 as stated: one HEAD exactly; a probe GET only after a 405 or 501 HEAD; the
\* content GET only after a "not embeddable" probe; nothing after the final write.
C10_ShapeAsStated ==
  (handler = "extension" /\ Accepted) =>
    /\ \E f \in Shapes : IsPrefix(log, f) /\ (pc = "Displayed" <=> log = f)
    /\ Len(log) >= Len(Started)
    /\ Count("GET-probe") >= 1 => headRes.kind = "response" /\ headRes.status \in {405, 501}
    /\ ContentFetchOrder

\* C10 amended: as stated, except that no request at all is issued when no fetch
\* function can be obtained, and the probe GET also follows a HEAD that resolved
\* to no response.
C10_Shape ==
  (handler = "extension" /\ Accepted) =>
    /\ \E f \in Shapes \cup {NoFetchShape} :
         /\ IsPrefix(log, f) /\ (pc = "Displayed" <=> log = f)
         /\ f = NoFetchShape <=> fetchFn = "throw"
    /\ Len(log) >= Len(Started)
    /\ Count("GET-probe") >= 1 =>
         \/ headRes.kind = "null"
         \/ headRes.kind = "response" /\ headRes.status \in {405, 501}
    /\ headRes.kind = "response" /\ headRes.status \notin {405, 501} => Count("GET-probe") = 0
    /\ ContentFetchOrder

C10_Witness ==
  /\ handler = "extension"
  /\ headRes.kind = "response" /\ headRes.status = 501
  /\ log = Started \o <<"GET-probe", "GET-content", "write-embedded">>

====
